---- MODULE Spec2Model ----
(***************************************************************************)
(* State-machine model of train.py: the (optionally distributed) training  *)
(* loop of the GPT trainer.  One copy of main() runs per process; the      *)
(* processes of a distributed run meet only in the gradient all-reduce     *)
(* issued by a synchronized backward pass and in the checkpoint file.      *)
(***************************************************************************)
EXTENDS Integers, Sequences, FiniteSets, TLC

(* ------------------------------ bounds -------------------------------- *)
\* Largest WORLD_SIZE the launcher is run with.
MaxWorld == 2
\* Largest --gradient_accumulation_steps on the command line.
MaxAccum == 3
\* Largest number of batches the train loader yields per epoch.
MaxBatches == 4
\* Largest --num_epochs on the command line.
MaxEpochs == 2
\* Largest --eval_epochs / --checkpoint_epochs on the command line.
MaxCadence == 2
\* Largest number of batches the test loader yields.
MaxTestBatches == 1
\* Largest processes^2 * batches * epochs of a run that is explored.
MaxWork == 8
\* Resumed runs: largest world size, epochs and processes^2 * batches *
\* epochs of the first launch, and largest epochs of the resumed launch.
MaxResumeWorld == 1
MaxResumeEpochs == 3
MaxResumeWork == 9
MaxResumeMore == 1
\* Largest processes^2 * batches * epochs of a run started with a side option
\* (an option the batch loop does not branch on) off its default.
MaxSideWork == 1

(* ------------------------- rational arithmetic ------------------------ *)
\* Losses are floats in the program; they are modelled as exact rationals
\* [num, den].  A denominator of 0 stands for the float inf that a tensor
\* division by zero produces.
RECURSIVE GCD(_, _)
GCD(a, b) == IF b = 0 THEN a ELSE GCD(b, a % b)

Norm(r) ==
    LET g == GCD(r.num, r.den)
    IN  IF g = 0 THEN [num |-> 0, den |-> 1]
        ELSE [num |-> r.num \div g, den |-> r.den \div g]

Rat(n) == [num |-> n, den |-> 1]

RatAdd(a, b) == Norm([num |-> a.num * b.den + b.num * a.den, den |-> a.den * b.den])

RatDiv(a, k) == Norm([num |-> a.num, den |-> a.den * k])

(* ------------------------------- state -------------------------------- *)
VARIABLES
    launched,             \* 0: plain `python train.py`; n >= 1: torchrun with n processes
    bf16_supported,       \* torch.cuda.is_bf16_supported() on the accelerators
    argv,                 \* the command line, identical for every process
    num_batches,          \* batches the train loader yields per epoch
    num_test_batches,     \* batches the test loader yields
    pc,                   \* each process's position in main()
    error,                \* the exception that ended the process, or "none"
    args,                 \* each process's parsed (and later rewritten) arguments
    warned,               \* whether the divisibility warning was emitted
    process_group,        \* "none", "initialized" or "destroyed"
    training,             \* model.training: TRUE in train mode, FALSE in eval mode
    grad_enabled,         \* torch.is_grad_enabled()
    params,               \* model parameters: the updates applied since construction
    opt_state,            \* optimizer state: number of optimizer steps taken
    grad,                 \* the batches whose gradients are summed in .grad
    epoch,                \* loop variable of line 180
    step,                 \* loop variable of line 184
    loss,                 \* the (scaled) loss of the current batch
    total_cross_entropy,
    total_gradient_norm,
    total_batches,
    total_steps,
    window_raw,           \* sum of the unscaled losses of the current window
    window_scaled,        \* sum of the scaled losses of the current window
    test_step,            \* batches of the test loader consumed in this pass
    metric,               \* perplexity accumulator: updates since the last reset
    checkpoint_file,      \* content of args.checkpoint_path, or NoFile
    writes,               \* <<rank, epoch>> of every torch.save performed
    dtype,                \* the autocast dtype chosen at lines 109-113
    seeded,               \* <<s>> once the generators were seeded with s, else <<>>
    wrapping,             \* the wrappers around the model, innermost first
    checkpoint,           \* the local variable `checkpoint` (lines 161 and 247)
    first_epoch,          \* epochs of data consumed before this run started
    average_cross_entropy,
    average_gradient_norm,
    epoch_raw,            \* sum of the unscaled losses of the current epoch
    epoch_norms           \* sum of the gradient norms recorded in the current epoch

vars == <<launched, argv, num_batches, num_test_batches, pc, error, args, warned,
          process_group, training, grad_enabled, params, opt_state, grad, epoch,
          step, loss, total_cross_entropy, total_gradient_norm, total_batches,
          total_steps, window_raw, window_scaled, test_step, metric,
          checkpoint_file, writes, bf16_supported, dtype, seeded, wrapping,
          checkpoint, first_epoch, average_cross_entropy, average_gradient_norm,
          epoch_raw, epoch_norms>>

cfgVars == <<launched, bf16_supported, argv, num_batches, num_test_batches>>

\* The checkpoint path before any torch.save: no record, no fields.
NoFile == [absent |-> TRUE]

(* ---------------------------- environment ----------------------------- *)
\* The processes of one launch: one under plain python, WORLD_SIZE under torchrun.
Launch == IF launched = 0 THEN {0} ELSE 0 .. (launched - 1)

\* The processes started so far; a later launch continues the numbering.
Procs == DOMAIN pc

\* The launch (0: the first run, 1: the run resumed after it) p belongs to.
Run(p) == IF launched = 0 THEN p ELSE p \div launched

RANK(p) == IF launched = 0 THEN -1 ELSE p % launched

LOCAL_RANK(p) == RANK(p)

\* The processes of launch r: the process group they form when distributed.
Group(r) == {q \in Procs : Run(q) = r}

WORLD_SIZE == IF launched = 0 THEN -1 ELSE launched

IS_DDP(p) == RANK(p) >= 0

IS_MASTER(p) == RANK(p) = 0 \/ ~IS_DDP(p)

\* The command lines explored: every count argument from 0 (invalid) upward.
Argv ==
    [batch_size : 0 .. 1,
     gradient_accumulation_steps : 0 .. MaxAccum,
     learning_rate : {-1, 0, 1},
     num_epochs : 0 .. MaxEpochs,
     eval_epochs : 0 .. MaxCadence,
     checkpoint_epochs : 0 .. MaxCadence,
     dropout : {[num |-> 1, den |-> 10]},
     block_size : {1024},
     embedding_dimensions : {768},
     num_attention_heads : {12},
     num_hidden_layers : {12},
     resume : BOOLEAN,
     device : {<<"cuda">>},
     seed : {<<>>, <<-1>>, <<0>>, <<1>>}]

\* The options of a command line, or of the machine, that are off their
\* defaults and that the batch loop does not branch on.  They are explored
\* one at a time, on command lines that pass validation (validation ends the
\* process before any of them is read) and on short runs.
SideOptions(a, bf16) ==
    {o \in {"learning_rate", "resume", "seed", "bf16"} :
        \/ o = "learning_rate" /\ a.learning_rate = 0
        \/ o = "resume" /\ a.resume
        \/ o = "seed" /\ a.seed # <<>>
        \/ o = "bf16" /\ ~bf16}

\* The raw loss values the model may return for a batch.
Losses == {1, 2}

\* Lines 140-147: the model construction arguments of process p.
model_args(p) ==
    [vocabulary_size |-> "VOCABULARY_SIZE", block_size |-> args[p].block_size,
     embedding_dimensions |-> args[p].embedding_dimensions,
     num_heads |-> args[p].num_attention_heads,
     num_layers |-> args[p].num_hidden_layers,
     dropout |-> args[p].dropout]

\* The arguments that fix the keys and tensor shapes of the model state:
\* embeddings and output layer (vocabulary, block size, width) and one
\* group of keys per layer.  Dropout layers hold no tensors.
StateShape(m) ==
    [vocabulary_size |-> m.vocabulary_size, block_size |-> m.block_size,
     embedding_dimensions |-> m.embedding_dimensions, num_layers |-> m.num_layers]

\* The prefix every key of model.state_dict() carries: torch.compile adds
\* "_orig_mod.", DistributedDataParallel adds "module." in front of it.
KeyPrefix(w) ==
    IF w = <<>> THEN ""
    ELSE IF w = <<"compile">> THEN "_orig_mod."
    ELSE "module._orig_mod."

\* model.state_dict() of process p.
state_dict(p) ==
    [prefix |-> KeyPrefix(wrapping[p]), shape |-> StateShape(model_args(p)),
     values |-> params[p]]

\* load_state_dict that takes any state (mutant of LoadAccepts).
LoadAcceptsAnything(p, sd) == TRUE

\* model.load_state_dict(sd) at line 165 is strict: it raises unless the
\* keys and the shapes of sd are those of the compiled, not yet wrapped model.
LoadAccepts(p, sd) ==
    /\ sd.prefix = KeyPrefix(<<"compile">>)
    /\ sd.shape = StateShape(model_args(p))

\* `if args.seed:` holds for a seed that is neither None nor 0.
Truthy(seed) == seed # <<>> /\ seed[1] # 0

\* A per-process variable with the processes `new` added at value v.
Extend(f, new, v) == [q \in DOMAIN f \cup new |-> IF q \in DOMAIN f THEN f[q] ELSE v]

\* Lines 61-85: the startup validation of the parsed arguments.
Invalid(a) ==
    \/ a.batch_size < 1
    \/ a.gradient_accumulation_steps < 1
    \/ a.learning_rate < 0
    \/ a.num_epochs < 1
    \/ a.eval_epochs < 1
    \/ a.checkpoint_epochs < 1

\* The state of the processes of the first launch before main() runs.
InitRun ==
    /\ pc = [p \in Launch |-> "validate"]
    /\ error = [p \in Launch |-> "none"]
    /\ args = [p \in Launch |-> argv]
    /\ warned = [p \in Launch |-> FALSE]
    /\ process_group = [p \in Launch |-> "none"]
    /\ training = [p \in Launch |-> TRUE]
    /\ grad_enabled = [p \in Launch |-> TRUE]
    /\ params = [p \in Launch |-> <<>>]
    /\ opt_state = [p \in Launch |-> 0]
    /\ grad = [p \in Launch |-> {}]
    /\ epoch = [p \in Launch |-> 0]
    /\ step = [p \in Launch |-> 0]
    /\ loss = [p \in Launch |-> Rat(0)]
    /\ total_cross_entropy = [p \in Launch |-> Rat(0)]
    /\ total_gradient_norm = [p \in Launch |-> 0]
    /\ total_batches = [p \in Launch |-> 0]
    /\ total_steps = [p \in Launch |-> 0]
    /\ window_raw = [p \in Launch |-> 0]
    /\ window_scaled = [p \in Launch |-> Rat(0)]
    /\ test_step = [p \in Launch |-> 0]
    /\ metric = [p \in Launch |-> 0]
    /\ checkpoint_file = NoFile
    /\ writes = {}
    /\ dtype = [p \in Launch |-> "unset"]
    /\ seeded = [p \in Launch |-> <<>>]
    /\ wrapping = [p \in Launch |-> <<>>]
    /\ checkpoint = [p \in Launch |-> NoFile]
    /\ first_epoch = [p \in Launch |-> 0]
    /\ average_cross_entropy = [p \in Launch |-> Rat(0)]
    /\ average_gradient_norm = [p \in Launch |-> Rat(0)]
    /\ epoch_raw = [p \in Launch |-> 0]
    /\ epoch_norms = [p \in Launch |-> 0]

Init ==
    /\ launched \in 0 .. MaxWorld
    /\ bf16_supported \in BOOLEAN
    /\ argv \in Argv
    /\ num_batches \in 0 .. MaxBatches
    /\ num_test_batches \in 1 .. MaxTestBatches
    /\ Cardinality(Launch) * Cardinality(Launch) * num_batches * argv.num_epochs <= MaxWork
    /\ Cardinality(SideOptions(argv, bf16_supported)) <= 1
    /\ SideOptions(argv, bf16_supported) # {}
          => /\ ~Invalid(argv)
             /\ Cardinality(Launch) * Cardinality(Launch) * num_batches * argv.num_epochs
                   <= MaxSideWork
    /\ InitRun

(* ------------------------------ startup ------------------------------- *)
Validate(p) ==
    /\ pc[p] = "validate"
    /\ IF Invalid(args[p])
       THEN /\ pc' = [pc EXCEPT ![p] = "crashed"]
            /\ error' = [error EXCEPT ![p] = "ValueError"]
       ELSE /\ pc' = [pc EXCEPT ![p] = "topology"]
            /\ UNCHANGED error
    /\ UNCHANGED <<dtype, seeded, wrapping, checkpoint, first_epoch, average_cross_entropy, average_gradient_norm, epoch_raw, epoch_norms>>
    /\ UNCHANGED <<cfgVars, args, warned, process_group, training, grad_enabled,
                   params, opt_state, grad, epoch, step, loss, total_cross_entropy,
                   total_gradient_norm, total_batches, total_steps, window_raw,
                   window_scaled, test_step, metric, checkpoint_file, writes>>

\* Topology with the divisibility test made after the division (mutant).
TopologyTestAfterDivide(p) ==
    /\ pc[p] = "topology"
    /\ IF IS_DDP(p)
       THEN /\ process_group' = [process_group EXCEPT ![p] = "initialized"]
            /\ warned' = [warned EXCEPT ![p] =
                   (args[p].gradient_accumulation_steps \div WORLD_SIZE) % WORLD_SIZE # 0]
            /\ args' = [args EXCEPT
                   ![p].device = <<"cuda", LOCAL_RANK(p)>>,
                   ![p].gradient_accumulation_steps =
                       args[p].gradient_accumulation_steps \div WORLD_SIZE,
                   ![p].seed = IF Truthy(args[p].seed)
                               THEN <<args[p].seed[1] + RANK(p)>>
                               ELSE args[p].seed]
       ELSE UNCHANGED <<process_group, warned, args>>
    /\ pc' = [pc EXCEPT ![p] = "construct"]
    /\ UNCHANGED <<dtype, seeded, wrapping, checkpoint, first_epoch, average_cross_entropy, average_gradient_norm, epoch_raw, epoch_norms>>
    /\ UNCHANGED <<cfgVars, error, training, grad_enabled, params, opt_state, grad,
                   epoch, step, loss, total_cross_entropy, total_gradient_norm,
                   total_batches, total_steps, window_raw, window_scaled,
                   test_step, metric, checkpoint_file, writes>>

\* Lines 92-107: join the process group, take the rank-local device, derive
\* the per-process accumulation steps by floor division and offset a seed
\* that passes `if args.seed:` by the rank.
Topology(p) ==
    /\ pc[p] = "topology"
    /\ IF IS_DDP(p)
       THEN /\ process_group' = [process_group EXCEPT ![p] = "initialized"]
            /\ warned' = [warned EXCEPT ![p] =
                   args[p].gradient_accumulation_steps % WORLD_SIZE # 0]
            /\ args' = [args EXCEPT
                   ![p].device = <<"cuda", LOCAL_RANK(p)>>,
                   ![p].gradient_accumulation_steps =
                       args[p].gradient_accumulation_steps \div WORLD_SIZE,
                   ![p].seed = IF Truthy(args[p].seed)
                               THEN <<args[p].seed[1] + RANK(p)>>
                               ELSE args[p].seed]
       ELSE UNCHANGED <<process_group, warned, args>>
    /\ pc' = [pc EXCEPT ![p] = "construct"]
    /\ UNCHANGED <<dtype, seeded, wrapping, checkpoint, first_epoch, average_cross_entropy, average_gradient_norm, epoch_raw, epoch_norms>>
    /\ UNCHANGED <<cfgVars, error, training, grad_enabled, params, opt_state, grad,
                   epoch, step, loss, total_cross_entropy, total_gradient_norm,
                   total_batches, total_steps, window_raw, window_scaled,
                   test_step, metric, checkpoint_file, writes>>

\* Lines 109-113: bfloat16 only if args.device is literally "cuda".
SelectDtype(p) ==
    IF args[p].device = <<"cuda">> /\ bf16_supported THEN "bfloat16" ELSE "float32"

\* Lines 109-176: choose the autocast dtype, seed the generators, build and
\* compile the model, optimizer and metric, load the checkpoint on --resume,
\* wrap the model when distributed, and enter training mode.  torch.load
\* raises when the file is missing, load_state_dict when it does not fit.
Construct(p) ==
    /\ pc[p] = "construct"
    /\ dtype' = [dtype EXCEPT ![p] = SelectDtype(p)]
    /\ seeded' = [seeded EXCEPT ![p] =
           IF Truthy(args[p].seed) THEN args[p].seed ELSE <<>>]
    /\ metric' = [metric EXCEPT ![p] = 0]
    /\ training' = [training EXCEPT ![p] = TRUE]
    /\ IF ~args[p].resume
       THEN /\ params' = [params EXCEPT ![p] = <<>>]
            /\ opt_state' = [opt_state EXCEPT ![p] = 0]
            /\ wrapping' = [wrapping EXCEPT ![p] =
                   IF IS_DDP(p) THEN <<"compile", "ddp">> ELSE <<"compile">>]
            /\ pc' = [pc EXCEPT ![p] = "epoch_loop"]
            /\ UNCHANGED <<checkpoint, error>>
       ELSE IF checkpoint_file = NoFile
       THEN /\ params' = [params EXCEPT ![p] = <<>>]
            /\ opt_state' = [opt_state EXCEPT ![p] = 0]
            /\ wrapping' = [wrapping EXCEPT ![p] = <<"compile">>]
            /\ pc' = [pc EXCEPT ![p] = "crashed"]
            /\ error' = [error EXCEPT ![p] = "FileNotFoundError"]
            /\ UNCHANGED checkpoint
       ELSE IF ~LoadAccepts(p, checkpoint_file.model)
       THEN /\ checkpoint' = [checkpoint EXCEPT ![p] = checkpoint_file]
            /\ params' = [params EXCEPT ![p] = <<>>]
            /\ opt_state' = [opt_state EXCEPT ![p] = 0]
            /\ wrapping' = [wrapping EXCEPT ![p] = <<"compile">>]
            /\ pc' = [pc EXCEPT ![p] = "crashed"]
            /\ error' = [error EXCEPT ![p] = "RuntimeError"]
       ELSE /\ checkpoint' = [checkpoint EXCEPT ![p] = checkpoint_file]
            /\ params' = [params EXCEPT ![p] = checkpoint_file.model.values]
            /\ opt_state' = [opt_state EXCEPT ![p] = checkpoint_file.optimizer]
            /\ wrapping' = [wrapping EXCEPT ![p] =
                   IF IS_DDP(p) THEN <<"compile", "ddp">> ELSE <<"compile">>]
            /\ pc' = [pc EXCEPT ![p] = "epoch_loop"]
            /\ UNCHANGED error
    /\ UNCHANGED <<first_epoch, average_cross_entropy, average_gradient_norm, epoch_raw, epoch_norms>>
    /\ UNCHANGED <<cfgVars, args, warned, process_group, grad_enabled, grad,
                   epoch, step, loss, total_cross_entropy, total_gradient_norm,
                   total_batches, total_steps, window_raw, window_scaled,
                   test_step, checkpoint_file, writes>>

(* --------------------------- training epoch --------------------------- *)
\* EpochStart with the step counter carried over from the last epoch (mutant).
EpochStartKeepsSteps(p) ==
    /\ pc[p] = "epoch_loop"
    /\ epoch[p] < args[p].num_epochs
    /\ epoch' = [epoch EXCEPT ![p] = epoch[p] + 1]
    /\ total_cross_entropy' = [total_cross_entropy EXCEPT ![p] = Rat(0)]
    /\ total_gradient_norm' = [total_gradient_norm EXCEPT ![p] = 0]
    /\ total_batches' = [total_batches EXCEPT ![p] = 0]
    /\ step' = [step EXCEPT ![p] = 0]
    /\ epoch_raw' = [epoch_raw EXCEPT ![p] = 0]
    /\ epoch_norms' = [epoch_norms EXCEPT ![p] = 0]
    /\ pc' = [pc EXCEPT ![p] = "batch_loop"]
    /\ UNCHANGED <<dtype, seeded, wrapping, checkpoint, first_epoch, average_cross_entropy, average_gradient_norm>>
    /\ UNCHANGED <<cfgVars, error, args, warned, process_group, training,
                   grad_enabled, params, opt_state, grad, loss, window_raw,
                   window_scaled, test_step, metric, checkpoint_file, writes,
                   total_steps>>

\* Lines 180-182: the next epoch starts with fresh accumulators.
EpochStart(p) ==
    /\ pc[p] = "epoch_loop"
    /\ epoch[p] < args[p].num_epochs
    /\ epoch' = [epoch EXCEPT ![p] = epoch[p] + 1]
    /\ total_cross_entropy' = [total_cross_entropy EXCEPT ![p] = Rat(0)]
    /\ total_gradient_norm' = [total_gradient_norm EXCEPT ![p] = 0]
    /\ total_batches' = [total_batches EXCEPT ![p] = 0]
    /\ total_steps' = [total_steps EXCEPT ![p] = 0]
    /\ step' = [step EXCEPT ![p] = 0]
    /\ epoch_raw' = [epoch_raw EXCEPT ![p] = 0]
    /\ epoch_norms' = [epoch_norms EXCEPT ![p] = 0]
    /\ pc' = [pc EXCEPT ![p] = "batch_loop"]
    /\ UNCHANGED <<dtype, seeded, wrapping, checkpoint, first_epoch, average_cross_entropy, average_gradient_norm>>
    /\ UNCHANGED <<cfgVars, error, args, warned, process_group, training,
                   grad_enabled, params, opt_state, grad, loss, window_raw,
                   window_scaled, test_step, metric, checkpoint_file, writes>>

\* Line 193 with the loss dropped from the division (mutant of ScaleLoss).
ScaleLossUnscaled(l, A) == Rat(l)

\* Line 193: loss /= args.gradient_accumulation_steps.
ScaleLoss(l, A) == RatDiv(Rat(l), A)

\* Lines 184-193: fetch the next batch, run the forward pass and scale the
\* loss by the accumulation steps.  A tensor divided by zero is inf.
Forward(p) ==
    /\ pc[p] = "batch_loop"
    /\ step[p] < num_batches
    /\ step' = [step EXCEPT ![p] = step[p] + 1]
    /\ \E l \in Losses :
          LET A == args[p].gradient_accumulation_steps
              scaled == ScaleLoss(l, A)
              first == A > 0 /\ step[p] % A = 0
          IN  /\ loss' = [loss EXCEPT ![p] = scaled]
              /\ epoch_raw' = [epoch_raw EXCEPT ![p] = epoch_raw[p] + l]
              /\ window_raw' = [window_raw EXCEPT ![p] =
                     IF first THEN l ELSE window_raw[p] + l]
              /\ window_scaled' = [window_scaled EXCEPT ![p] =
                     IF first THEN scaled ELSE RatAdd(window_scaled[p], scaled)]
    /\ pc' = [pc EXCEPT ![p] = "backward"]
    /\ UNCHANGED <<dtype, seeded, wrapping, checkpoint, first_epoch, average_cross_entropy, average_gradient_norm, epoch_norms>>
    /\ UNCHANGED <<cfgVars, error, args, warned, process_group, training,
                   grad_enabled, params, opt_state, grad, epoch,
                   total_cross_entropy, total_gradient_norm, total_batches,
                   total_steps, test_step, metric, checkpoint_file, writes>>

\* Lines 121-138 and 184: the batch process p is working on, named by the
\* shard of the data p reads, the epoch of data and the step in the epoch.
Batch(p) == <<IF IS_DDP(p) THEN RANK(p) ELSE 0, first_epoch[p] + epoch[p], step[p]>>

\* Line 197: the backward pass runs under no_sync() unless this holds.
\* no_sync() is taken to suppress the all-reduce of the backward pass it
\* wraps, which is the use the code makes of it.
Synchronizes(p) == ~(IS_DDP(p) /\ step[p] # args[p].gradient_accumulation_steps)

\* Lines 195-200: the backward pass adds this batch's gradient to .grad; a
\* synchronized backward pass of a distributed run then enters the all-reduce.
Backward(p) ==
    /\ pc[p] = "backward"
    /\ grad' = [grad EXCEPT ![p] = grad[p] \cup {Batch(p)}]
    /\ pc' = [pc EXCEPT ![p] =
           IF IS_DDP(p) /\ Synchronizes(p) THEN "allreduce" ELSE "accumulate"]
    /\ UNCHANGED <<dtype, seeded, wrapping, checkpoint, first_epoch, average_cross_entropy, average_gradient_norm, epoch_raw, epoch_norms>>
    /\ UNCHANGED <<cfgVars, error, args, warned, process_group, training,
                   grad_enabled, params, opt_state, epoch, step, loss,
                   total_cross_entropy, total_gradient_norm, total_batches,
                   total_steps, window_raw, window_scaled, test_step, metric,
                   checkpoint_file, writes>>

\* Line 200 (DistributedDataParallel): the collective blocks until every
\* process of the group has entered it, then leaves the reduced gradient of
\* all processes in every process's .grad.
AllReduce(r) ==
    /\ \A q \in Group(r) : pc[q] = "allreduce"
    /\ grad' = [q \in Procs |->
           IF q \in Group(r) THEN UNION {grad[o] : o \in Group(r)} ELSE grad[q]]
    /\ pc' = [q \in Procs |-> IF q \in Group(r) THEN "accumulate" ELSE pc[q]]
    /\ UNCHANGED <<dtype, seeded, wrapping, checkpoint, first_epoch, average_cross_entropy, average_gradient_norm, epoch_raw, epoch_norms>>
    /\ UNCHANGED <<cfgVars, error, args, warned, process_group, training,
                   grad_enabled, params, opt_state, epoch, step, loss,
                   total_cross_entropy, total_gradient_norm, total_batches,
                   total_steps, window_raw, window_scaled, test_step, metric,
                   checkpoint_file, writes>>

\* Lines 202-214: add the loss to the epoch total and, on a window boundary,
\* clip, apply the optimizer step and zero the gradients.  With zero
\* accumulation steps the boundary test raises ZeroDivisionError.
Accumulate(p) ==
    /\ pc[p] = "accumulate"
    /\ total_cross_entropy' = [total_cross_entropy EXCEPT ![p] =
           RatAdd(total_cross_entropy[p], loss[p])]
    /\ IF args[p].gradient_accumulation_steps = 0
       THEN /\ pc' = [pc EXCEPT ![p] = "crashed"]
            /\ error' = [error EXCEPT ![p] = "ZeroDivisionError"]
            /\ UNCHANGED <<params, opt_state, grad, total_gradient_norm,
                           total_steps, total_batches, epoch_norms>>
       ELSE /\ IF step[p] % args[p].gradient_accumulation_steps = 0
               THEN /\ params' = [params EXCEPT ![p] =
                           IF args[p].learning_rate = 0 THEN params[p]
                           ELSE Append(params[p], grad[p])]
                    /\ opt_state' = [opt_state EXCEPT ![p] = opt_state[p] + 1]
                    /\ grad' = [grad EXCEPT ![p] = {}]
                    /\ total_gradient_norm' = [total_gradient_norm EXCEPT ![p] =
                           total_gradient_norm[p] + Cardinality(grad[p])]
                    /\ total_steps' = [total_steps EXCEPT ![p] = total_steps[p] + 1]
                    /\ epoch_norms' = [epoch_norms EXCEPT ![p] =
                           epoch_norms[p] + Cardinality(grad[p])]
               ELSE UNCHANGED <<params, opt_state, grad, total_gradient_norm,
                                total_steps, epoch_norms>>
            /\ total_batches' = [total_batches EXCEPT ![p] = total_batches[p] + 1]
            /\ pc' = [pc EXCEPT ![p] = "batch_loop"]
            /\ UNCHANGED error
    /\ UNCHANGED <<dtype, seeded, wrapping, checkpoint, first_epoch, average_cross_entropy, average_gradient_norm, epoch_raw>>
    /\ UNCHANGED <<cfgVars, args, warned, process_group, training, grad_enabled,
                   epoch, step, loss, window_raw, window_scaled, test_step, metric,
                   checkpoint_file, writes>>

\* EpochEnd with the norm total divided by the batch count (mutant).
EpochEndNormOverBatches(p) ==
    /\ pc[p] = "batch_loop"
    /\ step[p] = num_batches
    /\ IF total_batches[p] = 0 \/ total_steps[p] = 0
       THEN /\ pc' = [pc EXCEPT ![p] = "crashed"]
            /\ error' = [error EXCEPT ![p] = "ZeroDivisionError"]
            /\ UNCHANGED <<average_cross_entropy, average_gradient_norm>>
       ELSE /\ average_cross_entropy' = [average_cross_entropy EXCEPT ![p] =
                   RatDiv(total_cross_entropy[p], total_batches[p])]
            /\ average_gradient_norm' = [average_gradient_norm EXCEPT ![p] =
                   RatDiv(Rat(total_gradient_norm[p]), total_batches[p])]
            /\ pc' = [pc EXCEPT ![p] = "eval_check"]
            /\ UNCHANGED error
    /\ UNCHANGED <<dtype, seeded, wrapping, checkpoint, first_epoch, epoch_raw, epoch_norms>>
    /\ UNCHANGED <<cfgVars, args, warned, process_group, training, grad_enabled,
                   params, opt_state, grad, epoch, step, loss, total_cross_entropy,
                   total_gradient_norm, total_batches, total_steps, window_raw,
                   window_scaled, test_step, metric, checkpoint_file, writes>>

\* Lines 216-223: the epoch report; a zero batch or step count raises
\* ZeroDivisionError.
EpochEnd(p) ==
    /\ pc[p] = "batch_loop"
    /\ step[p] = num_batches
    /\ IF total_batches[p] = 0 \/ total_steps[p] = 0
       THEN /\ pc' = [pc EXCEPT ![p] = "crashed"]
            /\ error' = [error EXCEPT ![p] = "ZeroDivisionError"]
            /\ UNCHANGED <<average_cross_entropy, average_gradient_norm>>
       ELSE /\ average_cross_entropy' = [average_cross_entropy EXCEPT ![p] =
                   RatDiv(total_cross_entropy[p], total_batches[p])]
            /\ average_gradient_norm' = [average_gradient_norm EXCEPT ![p] =
                   RatDiv(Rat(total_gradient_norm[p]), total_steps[p])]
            /\ pc' = [pc EXCEPT ![p] = "eval_check"]
            /\ UNCHANGED error
    /\ UNCHANGED <<dtype, seeded, wrapping, checkpoint, first_epoch, epoch_raw, epoch_norms>>
    /\ UNCHANGED <<cfgVars, args, warned, process_group, training, grad_enabled,
                   params, opt_state, grad, epoch, step, loss, total_cross_entropy,
                   total_gradient_norm, total_batches, total_steps, window_raw,
                   window_scaled, test_step, metric, checkpoint_file, writes>>

(* ----------------------------- evaluation ----------------------------- *)
\* EvalCheck without the coordinator test (mutant).
EvalCheckAnyRank(p) ==
    /\ pc[p] = "eval_check"
    /\ IF epoch[p] % args[p].eval_epochs = 0
       THEN /\ training' = [training EXCEPT ![p] = FALSE]
            /\ test_step' = [test_step EXCEPT ![p] = 0]
            /\ pc' = [pc EXCEPT ![p] = "eval_loop"]
       ELSE /\ pc' = [pc EXCEPT ![p] = "checkpoint"]
            /\ UNCHANGED <<training, test_step>>
    /\ UNCHANGED <<dtype, seeded, wrapping, checkpoint, first_epoch, average_cross_entropy, average_gradient_norm, epoch_raw, epoch_norms>>
    /\ UNCHANGED <<cfgVars, error, args, warned, process_group, grad_enabled,
                   params, opt_state, grad, epoch, step, loss, total_cross_entropy,
                   total_gradient_norm, total_batches, total_steps, window_raw,
                   window_scaled, metric, checkpoint_file, writes>>

\* Lines 225-226: the coordinator enters evaluation on the eval cadence.
EvalCheck(p) ==
    /\ pc[p] = "eval_check"
    /\ IF epoch[p] % args[p].eval_epochs = 0 /\ IS_MASTER(p)
       THEN /\ training' = [training EXCEPT ![p] = FALSE]
            /\ test_step' = [test_step EXCEPT ![p] = 0]
            /\ pc' = [pc EXCEPT ![p] = "eval_loop"]
       ELSE /\ pc' = [pc EXCEPT ![p] = "checkpoint"]
            /\ UNCHANGED <<training, test_step>>
    /\ UNCHANGED <<dtype, seeded, wrapping, checkpoint, first_epoch, average_cross_entropy, average_gradient_norm, epoch_raw, epoch_norms>>
    /\ UNCHANGED <<cfgVars, error, args, warned, process_group, grad_enabled,
                   params, opt_state, grad, epoch, step, loss, total_cross_entropy,
                   total_gradient_norm, total_batches, total_steps, window_raw,
                   window_scaled, metric, checkpoint_file, writes>>

\* Lines 228-232: fetch the next test batch and enter torch.no_grad().
EvalFetch(p) ==
    /\ pc[p] = "eval_loop"
    /\ test_step[p] < num_test_batches
    /\ test_step' = [test_step EXCEPT ![p] = test_step[p] + 1]
    /\ grad_enabled' = [grad_enabled EXCEPT ![p] = FALSE]
    /\ pc' = [pc EXCEPT ![p] = "eval_forward"]
    /\ UNCHANGED <<dtype, seeded, wrapping, checkpoint, first_epoch, average_cross_entropy, average_gradient_norm, epoch_raw, epoch_norms>>
    /\ UNCHANGED <<cfgVars, error, args, warned, process_group, training, params,
                   opt_state, grad, epoch, step, loss, total_cross_entropy,
                   total_gradient_norm, total_batches, total_steps, window_raw,
                   window_scaled, metric, checkpoint_file, writes>>

\* Lines 233-236: the evaluation forward pass and the metric update; leaving
\* torch.no_grad() restores gradient tracking.
EvalForward(p) ==
    /\ pc[p] = "eval_forward"
    /\ metric' = [metric EXCEPT ![p] = metric[p] + 1]
    /\ grad_enabled' = [grad_enabled EXCEPT ![p] = TRUE]
    /\ pc' = [pc EXCEPT ![p] = "eval_loop"]
    /\ UNCHANGED <<dtype, seeded, wrapping, checkpoint, first_epoch, average_cross_entropy, average_gradient_norm, epoch_raw, epoch_norms>>
    /\ UNCHANGED <<cfgVars, error, args, warned, process_group, training, params,
                   opt_state, grad, epoch, step, loss, total_cross_entropy,
                   total_gradient_norm, total_batches, total_steps, window_raw,
                   window_scaled, test_step, checkpoint_file, writes>>

\* EvalEnd that leaves the model in evaluation mode (mutant).
EvalEndStaysInEval(p) ==
    /\ pc[p] = "eval_loop"
    /\ test_step[p] = num_test_batches
    /\ metric' = [metric EXCEPT ![p] = 0]
    /\ pc' = [pc EXCEPT ![p] = "checkpoint"]
    /\ UNCHANGED <<dtype, seeded, wrapping, checkpoint, first_epoch, average_cross_entropy, average_gradient_norm, epoch_raw, epoch_norms>>
    /\ UNCHANGED <<cfgVars, error, args, warned, process_group, grad_enabled,
                   params, opt_state, grad, epoch, step, loss, total_cross_entropy,
                   total_gradient_norm, total_batches, total_steps, window_raw,
                   window_scaled, test_step, checkpoint_file, writes, training>>

\* Lines 238-244: report the perplexity, reset the metric and switch the
\* model back to training mode.
EvalEnd(p) ==
    /\ pc[p] = "eval_loop"
    /\ test_step[p] = num_test_batches
    /\ metric' = [metric EXCEPT ![p] = 0]
    /\ training' = [training EXCEPT ![p] = TRUE]
    /\ pc' = [pc EXCEPT ![p] = "checkpoint"]
    /\ UNCHANGED <<dtype, seeded, wrapping, checkpoint, first_epoch, average_cross_entropy, average_gradient_norm, epoch_raw, epoch_norms>>
    /\ UNCHANGED <<cfgVars, error, args, warned, process_group, grad_enabled,
                   params, opt_state, grad, epoch, step, loss, total_cross_entropy,
                   total_gradient_norm, total_batches, total_steps, window_raw,
                   window_scaled, test_step, checkpoint_file, writes>>

(* ----------------------------- checkpoint ----------------------------- *)
\* Lines 247-251: the dictionary that is saved.
CheckpointDict(p) ==
    [model |-> state_dict(p), optimizer |-> opt_state[p],
     model_args |-> model_args(p)]

\* Checkpoint without the coordinator test (mutant).
CheckpointAnyRank(p) ==
    /\ pc[p] = "checkpoint"
    /\ IF epoch[p] % args[p].checkpoint_epochs = 0
       THEN /\ checkpoint' = [checkpoint EXCEPT ![p] = CheckpointDict(p)]
            /\ checkpoint_file' = CheckpointDict(p)
            /\ writes' = writes \cup {<<RANK(p), epoch[p]>>}
       ELSE UNCHANGED <<checkpoint, checkpoint_file, writes>>
    /\ pc' = [pc EXCEPT ![p] = "epoch_loop"]
    /\ UNCHANGED <<dtype, seeded, wrapping, first_epoch, average_cross_entropy, average_gradient_norm, epoch_raw, epoch_norms>>
    /\ UNCHANGED <<cfgVars, error, args, warned, process_group, training,
                   grad_enabled, params, opt_state, grad, epoch, step, loss,
                   total_cross_entropy, total_gradient_norm, total_batches,
                   total_steps, window_raw, window_scaled, test_step, metric>>

\* Lines 246-255: the coordinator saves the checkpoint on the checkpoint
\* cadence.
Checkpoint(p) ==
    /\ pc[p] = "checkpoint"
    /\ IF epoch[p] % args[p].checkpoint_epochs = 0 /\ IS_MASTER(p)
       THEN /\ checkpoint' = [checkpoint EXCEPT ![p] = CheckpointDict(p)]
            /\ checkpoint_file' = CheckpointDict(p)
            /\ writes' = writes \cup {<<RANK(p), epoch[p]>>}
       ELSE UNCHANGED <<checkpoint, checkpoint_file, writes>>
    /\ pc' = [pc EXCEPT ![p] = "epoch_loop"]
    /\ UNCHANGED <<dtype, seeded, wrapping, first_epoch, average_cross_entropy, average_gradient_norm, epoch_raw, epoch_norms>>
    /\ UNCHANGED <<cfgVars, error, args, warned, process_group, training,
                   grad_enabled, params, opt_state, grad, epoch, step, loss,
                   total_cross_entropy, total_gradient_norm, total_batches,
                   total_steps, window_raw, window_scaled, test_step, metric>>

\* Lines 180 and 257-258: after the last epoch the process group is destroyed.
Terminate(p) ==
    /\ pc[p] = "epoch_loop"
    /\ epoch[p] >= args[p].num_epochs
    /\ process_group' = [process_group EXCEPT ![p] =
           IF IS_DDP(p) THEN "destroyed" ELSE process_group[p]]
    /\ pc' = [pc EXCEPT ![p] = "done"]
    /\ UNCHANGED <<dtype, seeded, wrapping, checkpoint, first_epoch, average_cross_entropy, average_gradient_norm, epoch_raw, epoch_norms>>
    /\ UNCHANGED <<cfgVars, error, args, warned, training, grad_enabled, params,
                   opt_state, grad, epoch, step, loss, total_cross_entropy,
                   total_gradient_norm, total_batches, total_steps, window_raw,
                   window_scaled, test_step, metric, checkpoint_file, writes>>

Next ==
    \/ \E p \in Procs : Validate(p)
    \/ \E p \in Procs : Topology(p)
    \/ \E p \in Procs : Construct(p)
    \/ \E p \in Procs : EpochStart(p)
    \/ \E p \in Procs : Forward(p)
    \/ \E p \in Procs : Backward(p)
    \/ \E p \in Procs : Accumulate(p)
    \/ \E p \in Procs : EpochEnd(p)
    \/ \E p \in Procs : EvalCheck(p)
    \/ \E p \in Procs : EvalFetch(p)
    \/ \E p \in Procs : EvalForward(p)
    \/ \E p \in Procs : EvalEnd(p)
    \/ \E p \in Procs : Checkpoint(p)
    \/ \E p \in Procs : Terminate(p)
    \/ \E r \in {Run(p) : p \in Procs} : AllReduce(r)

Spec == Init /\ [][Next]_vars

(* ------------------------------- resume ------------------------------- *)
\* The first launch of a run that is later resumed: a valid command line
\* without --resume.
InitResume ==
    /\ launched \in 0 .. MaxResumeWorld
    /\ bf16_supported = TRUE
    /\ argv \in {[a EXCEPT !.num_epochs = e] : a \in Argv, e \in 1 .. MaxResumeEpochs}
    /\ ~Invalid(argv)
    /\ SideOptions(argv, bf16_supported) = {}
    /\ argv.eval_epochs = 1
    /\ num_batches \in 1 .. MaxBatches
    /\ Cardinality(Launch) * Cardinality(Launch) * num_batches * argv.num_epochs
          <= MaxResumeWork
    /\ num_test_batches = 1
    /\ InitRun

\* The epoch after which the file at checkpoint_path was last written.
SavedEpoch == CHOOSE e \in {w[2] : w \in writes} : \A w \in writes : w[2] <= e

\* The model options a second command line may change.
Changes == {"none", "dropout", "embedding_dimensions", "num_hidden_layers"}

\* Command line a with option ch set to another value than the default.
Changed(a, ch) ==
    IF ch = "dropout" THEN [a EXCEPT !.dropout = [num |-> 2, den |-> 10]]
    ELSE IF ch = "embedding_dimensions" THEN [a EXCEPT !.embedding_dimensions = 1024]
    ELSE IF ch = "num_hidden_layers" THEN [a EXCEPT !.num_hidden_layers = 24]
    ELSE a

\* The program is started again with --resume, in the same mode, after the
\* first launch has ended: the new processes find the checkpoint file as the
\* first launch left it, and the data continues after the saved epoch.
Relaunch ==
    /\ Procs = Launch
    /\ \A p \in Launch : pc[p] = "done"
    /\ checkpoint_file # NoFile
    /\ \E n \in 1 .. MaxResumeMore, ch \in Changes :
          LET new == {Cardinality(Launch) + q : q \in Launch}
              a == Changed([argv EXCEPT !.resume = TRUE, !.num_epochs = n], ch)
          IN  /\ pc' = Extend(pc, new, "validate")
              /\ error' = Extend(error, new, "none")
              /\ args' = Extend(args, new, a)
              /\ warned' = Extend(warned, new, FALSE)
              /\ process_group' = Extend(process_group, new, "none")
              /\ training' = Extend(training, new, TRUE)
              /\ grad_enabled' = Extend(grad_enabled, new, TRUE)
              /\ params' = Extend(params, new, <<>>)
              /\ opt_state' = Extend(opt_state, new, 0)
              /\ grad' = Extend(grad, new, {})
              /\ epoch' = Extend(epoch, new, 0)
              /\ step' = Extend(step, new, 0)
              /\ loss' = Extend(loss, new, Rat(0))
              /\ total_cross_entropy' = Extend(total_cross_entropy, new, Rat(0))
              /\ total_gradient_norm' = Extend(total_gradient_norm, new, 0)
              /\ total_batches' = Extend(total_batches, new, 0)
              /\ total_steps' = Extend(total_steps, new, 0)
              /\ window_raw' = Extend(window_raw, new, 0)
              /\ window_scaled' = Extend(window_scaled, new, Rat(0))
              /\ test_step' = Extend(test_step, new, 0)
              /\ metric' = Extend(metric, new, 0)
              /\ dtype' = Extend(dtype, new, "unset")
              /\ seeded' = Extend(seeded, new, <<>>)
              /\ wrapping' = Extend(wrapping, new, <<>>)
              /\ checkpoint' = Extend(checkpoint, new, NoFile)
              /\ first_epoch' = Extend(first_epoch, new, SavedEpoch)
              /\ average_cross_entropy' = Extend(average_cross_entropy, new, Rat(0))
              /\ average_gradient_norm' = Extend(average_gradient_norm, new, Rat(0))
              /\ epoch_raw' = Extend(epoch_raw, new, 0)
              /\ epoch_norms' = Extend(epoch_norms, new, 0)
    /\ UNCHANGED <<cfgVars, checkpoint_file, writes>>

NextResume ==
    \/ Next
    \/ Relaunch

SpecResume == InitResume /\ [][NextResume]_vars

(* ------------------------------ properties ---------------------------- *)
\* The effective accumulation steps of process p.
Accum(p) == args[p].gradient_accumulation_steps

\* p is inside the batch loop of an epoch.
InBatchLoop(p) == pc[p] \in {"batch_loop", "backward", "allreduce", "accumulate"}

\* p has finished the batches of the current epoch and its report.
AfterEpoch(p) == pc[p] \in {"eval_check", "eval_loop", "eval_forward", "checkpoint"}

\* p is in the evaluation pass.
InEval(p) == pc[p] \in {"eval_loop", "eval_forward"}

\* p has derived its topology (it passed validation and lines 92-107).
Resolved(p) == pc[p] \notin {"validate", "topology"} /\ error[p] # "ValueError"

\* p has passed the checkpoint decision of epoch e.
PassedCheckpoint(p, e) ==
    \/ epoch[p] > e
    \/ epoch[p] = e /\ pc[p] \in {"epoch_loop", "done"}

\* C1: in a distributed run the backward pass of batch `step` synchronizes
\* gradients if and only if step is a multiple of the effective accumulation
\* steps, so every optimizer step follows a synchronized backward pass.
C1_SyncIffWindowEnd ==
    [][\A p \in Procs :
          (IS_DDP(p) /\ Accum(p) > 0 /\ pc[p] = "backward" /\ pc'[p] # "backward")
             => ((pc'[p] = "allreduce") <=> (step[p] % Accum(p) = 0))]_vars

\* C2: in a distributed run, processes that have applied the same number of
\* optimizer steps hold identical model parameters.
C2_ReplicasAgree ==
    \A p, q \in Procs :
       (IS_DDP(p) /\ Run(p) = Run(q) /\ opt_state[p] = opt_state[q])
          => params[p] = params[q]

\* C3: with effective accumulation steps A >= 1 the optimizer-step counter
\* equals floor(n / A) after n batches of the epoch, hence floor(B / A) at the
\* end of an epoch of B batches, in every epoch.
C3_StepCount ==
    \A p \in Procs :
       /\ (Accum(p) >= 1 /\ pc[p] = "batch_loop")
             => total_steps[p] = step[p] \div Accum(p)
       /\ (Accum(p) >= 1 /\ pc[p] \in {"backward", "allreduce", "accumulate"})
             => total_steps[p] = (step[p] - 1) \div Accum(p)
       /\ AfterEpoch(p) => total_steps[p] = num_batches \div Accum(p)

\* C3 witness: the end of a second epoch of 3 batches with A = 2.
C3_Witness ==
    \E p \in Procs :
       /\ pc[p] = "eval_check" /\ epoch[p] = 2
       /\ num_batches = 3 /\ Accum(p) = 2 /\ total_steps[p] = 1

\* C4: every optimizer step applies the gradients of exactly the A batches
\* of the current window of the current epoch.
C4_StepAppliesOwnWindow ==
    \A p \in Procs :
       (pc[p] = "accumulate" /\ Accum(p) >= 1 /\ step[p] % Accum(p) = 0)
          => /\ \A b \in grad[p] :
                   /\ b[2] = Batch(p)[2]
                   /\ b[3] \in (step[p] - Accum(p) + 1) .. step[p]
             /\ Cardinality({b \in grad[p] : b[1] = Batch(p)[1]}) = Accum(p)

\* C5: in a complete window of A batches every loss is divided by A, and the
\* scaled losses of the window sum to the mean of its unscaled losses.
C5_WindowMean ==
    \A p \in Procs :
       /\ (Accum(p) >= 1 /\ pc[p] \in {"backward", "allreduce", "accumulate"})
             => \E l \in Losses : loss[p].num * Accum(p) = l * loss[p].den
       /\ (Accum(p) >= 1 /\ InBatchLoop(p) /\ step[p] > 0 /\ step[p] % Accum(p) = 0)
             => window_scaled[p].num * Accum(p) = window_raw[p] * window_scaled[p].den

\* C5 witness: a complete window of 3 batches whose losses are not all equal.
C5_Witness ==
    \E p \in Procs :
       /\ pc[p] = "accumulate" /\ Accum(p) = 3 /\ step[p] = 3
       /\ window_raw[p] = 4 /\ window_scaled[p] = [num |-> 4, den |-> 3]

\* C6: a distributed process uses floor(G / W) accumulation steps and warns
\* exactly when W does not divide G; a single process uses G and never warns.
C6_EffectiveSteps ==
    \A p \in Procs :
       Resolved(p) =>
          IF IS_DDP(p)
          THEN /\ Accum(p) = argv.gradient_accumulation_steps \div WORLD_SIZE
               /\ warned[p] <=> (argv.gradient_accumulation_steps % WORLD_SIZE # 0)
          ELSE /\ Accum(p) = argv.gradient_accumulation_steps
               /\ ~warned[p]

\* C6 witness: G = 3 on 2 processes gives 1 accumulation step and a warning.
C6_Witness ==
    \E p \in Procs :
       /\ launched = 2 /\ argv.gradient_accumulation_steps = 3
       /\ pc[p] = "construct" /\ Accum(p) = 1 /\ warned[p]

\* C7: the accumulation steps used by the training loop are positive for
\* every configuration that passes validation and every world size.
C7_AccumPositive ==
    \A p \in Procs : (InBatchLoop(p) \/ AfterEpoch(p)) => Accum(p) > 0

\* C8: an evaluation pass changes neither the model parameters nor the
\* optimizer state, runs its forward passes in evaluation mode with gradient
\* tracking disabled, and leaves the model in training mode, so that every
\* training batch is processed in training mode.
C8_EvalFrame ==
    /\ [](\A p \in Procs :
            /\ pc[p] = "eval_forward" => (~training[p] /\ ~grad_enabled[p])
            /\ pc[p] \in {"batch_loop", "backward", "checkpoint"}
                  => (training[p] /\ grad_enabled[p]))
    /\ [][\A p \in Procs :
            (pc[p] \in {"eval_check", "eval_loop", "eval_forward"})
               => (params'[p] = params[p] /\ opt_state'[p] = opt_state[p]
                   /\ grad'[p] = grad[p])]_vars

\* C8 witness: the first batch of an epoch that follows an evaluation pass.
C8_Witness ==
    \E p \in Procs :
       /\ pc[p] = "batch_loop" /\ step[p] = 0 /\ epoch[p] = 2
       /\ args[p].eval_epochs = 1 /\ test_step[p] = num_test_batches
       /\ training[p]

\* C9: only the coordinator writes the checkpoint file; it writes at the end
\* of epoch e exactly when e is a multiple of checkpoint_epochs; the record
\* holds model state, optimizer state and model construction arguments.
C9_CheckpointWriter ==
    /\ \A w \in writes :
          /\ w[1] = (IF launched = 0 THEN -1 ELSE 0)
          /\ w[2] % argv.checkpoint_epochs = 0
          /\ \E p \in Procs : RANK(p) = w[1] /\ PassedCheckpoint(p, w[2])
    /\ \A p \in Procs : \A e \in 1 .. epoch[p] :
          (IS_MASTER(p) /\ PassedCheckpoint(p, e) /\ e % argv.checkpoint_epochs = 0)
             => <<RANK(p), e>> \in writes
    /\ checkpoint_file # NoFile
          => DOMAIN checkpoint_file = {"model", "optimizer", "model_args"}
    /\ (writes # {}) <=> (checkpoint_file # NoFile)

\* C9 witness: a 2-process run in which rank 0 wrote the checkpoint of epoch
\* 2 and rank 1 passed both checkpoint decisions without writing.
C9_Witness ==
    /\ launched = 2 /\ argv.checkpoint_epochs = 2
    /\ writes = {<<0, 2>>} /\ pc[1] = "done"

\* C10: a process enters evaluation at the end of epoch e exactly when e is
\* a multiple of eval_epochs and it is the coordinator; another worker never
\* enters evaluation and never updates the perplexity accumulator.
C10_EvalCoordinatorOnly ==
    /\ [](\A p \in Procs :
            /\ InEval(p) => (IS_MASTER(p) /\ epoch[p] % args[p].eval_epochs = 0)
            /\ ~IS_MASTER(p) => (metric[p] = 0 /\ test_step[p] = 0))
    /\ [][\A p \in Procs :
            (pc[p] = "eval_check" /\ pc'[p] # "eval_check")
               => ((pc'[p] = "eval_loop")
                     <=> (epoch[p] % args[p].eval_epochs = 0 /\ IS_MASTER(p)))]_vars

\* C10 witness: rank 0 evaluates after epoch 2 while rank 1, which never
\* evaluated, has finished.
C10_Witness ==
    /\ launched = 2 /\ pc[0] = "eval_forward" /\ epoch[0] = 2
    /\ pc[1] = "done" /\ test_step[1] = 0

\* A count or rate of the configuration is zero or negative.
NonPositive(a) ==
    \/ a.batch_size <= 0
    \/ a.gradient_accumulation_steps <= 0
    \/ a.learning_rate <= 0
    \/ a.num_epochs <= 0
    \/ a.eval_epochs <= 0
    \/ a.checkpoint_epochs <= 0

\* C13: a configuration with a non-positive batch size, accumulation steps,
\* learning rate, epoch count, eval cadence or checkpoint cadence is rejected
\* with an error at startup: no process leaves validation other than by the
\* error, none joins a process group and none starts an epoch.
C13_NonPositiveRejected ==
    \A p \in Procs :
       NonPositive(argv) =>
          /\ pc[p] \in {"validate", "crashed"}
          /\ pc[p] = "crashed" => error[p] = "ValueError"
          /\ process_group[p] = "none"
          /\ epoch[p] = 0

\* C14: a distributed process holds an initialised process group from the
\* end of startup on and has destroyed it whenever it has ended after the
\* initialisation, be it by completing or by failing; a single process
\* never has a process group.
C14_GroupLifecycle ==
    \A p \in Procs :
       /\ ~IS_DDP(p) => process_group[p] = "none"
       /\ (IS_DDP(p) /\ pc[p] \in {"validate", "topology"})
             => process_group[p] = "none"
       /\ (IS_DDP(p) /\ pc[p] \notin {"validate", "topology", "crashed", "done"})
             => process_group[p] = "initialized"
       /\ (IS_DDP(p) /\ pc[p] \in {"crashed", "done"} /\ error[p] # "ValueError")
             => process_group[p] = "destroyed"

\* C15: the autocast dtype is bfloat16 exactly when the accelerator supports
\* it, in single-process and in distributed mode alike.
C15_PrecisionPolicy ==
    \A p \in Procs :
       dtype[p] # "unset" => ((dtype[p] = "bfloat16") <=> bf16_supported)

\* C16: whenever a seed s is configured, a distributed worker of rank r
\* seeds its generators with s + r and a single process seeds with s.
C16_SeedOffset ==
    \A p \in Procs :
       (argv.seed # <<>> /\ dtype[p] # "unset")
          => seeded[p] = <<argv.seed[1] + (IF IS_DDP(p) THEN RANK(p) ELSE 0)>>

\* C17: at the end of every epoch the reported average loss is the sum of
\* the scaled losses of the epoch divided by its number of batches, and the
\* reported average gradient norm is the sum of the norms recorded in the
\* epoch divided by its number of optimizer steps.
C17_EpochReport ==
    \A p \in Procs :
       AfterEpoch(p) =>
          /\ total_batches[p] = num_batches
          /\ total_steps[p] = num_batches \div Accum(p)
          /\ total_cross_entropy[p].num * Accum(p)
                = epoch_raw[p] * total_cross_entropy[p].den
          /\ total_gradient_norm[p] = epoch_norms[p]
          /\ average_cross_entropy[p].num * total_batches[p] * total_cross_entropy[p].den
                = total_cross_entropy[p].num * average_cross_entropy[p].den
          /\ average_gradient_norm[p].num * total_steps[p]
                = epoch_norms[p] * average_gradient_norm[p].den

\* C17 witness: the report of a second epoch of 3 batches and 1 optimizer
\* step, whose loss sum 4 and norm sum 3 differ from those of the first epoch.
C17_Witness ==
    \E p \in Procs :
       /\ pc[p] = "eval_check" /\ epoch[p] = 2
       /\ num_batches = 3 /\ Accum(p) = 2 /\ total_steps[p] = 1
       /\ epoch_raw[p] = 4 /\ epoch_norms[p] = 3
       /\ average_cross_entropy[p] = [num |-> 2, den |-> 3]
       /\ average_gradient_norm[p] = [num |-> 3, den |-> 1]

\* C18: in a distributed run started from a valid configuration, in which
\* every process sees the same number of batches, no process is left unable
\* to continue before every process has completed all epochs.
C18_RunsToCompletion ==
    (launched >= 1 /\ ~Invalid(argv) /\ ~argv.resume /\ num_batches >= 1)
       => ((\A p \in Procs : pc[p] = "done") \/ ENABLED Next)

\* C19: an epoch with at least one batch never fails in its report on a
\* zero denominator, also when it has fewer batches than accumulation steps.
C19_ReportNeverFails ==
    \A p \in Procs :
       ~(/\ pc[p] = "crashed" /\ error[p] = "ZeroDivisionError"
         /\ Accum(p) >= 1 /\ step[p] = num_batches /\ total_batches[p] >= 1)

\* p is a process of the resumed launch that has passed lines 109-176.
Resumed(p) == Run(p) = 1 /\ dtype[p] # "unset"

\* C11: a single process that resumes from the checkpoint saved after epoch
\* K and trains the remaining epochs ends with the parameters and optimizer
\* state of the uninterrupted run over the same total number of epochs.
C11_ResumeEquivalence ==
    \A p \in Procs :
       (/\ launched = 0 /\ Run(p) = 1 /\ pc[p] = "done" /\ pc[0] = "done"
        /\ model_args(p) = model_args(0)
        /\ first_epoch[p] + args[p].num_epochs = args[0].num_epochs)
          => (params[p] = params[0] /\ opt_state[p] = opt_state[0])

\* C12 as stated: a resume whose checkpoint was saved with construction
\* arguments that differ in any argument from those of the constructed
\* model fails with an error before any training batch.
C12_AnyDifferenceFails ==
    \A p \in Procs :
       (Resumed(p) /\ epoch[p] = 0 /\ checkpoint[p] # NoFile
        /\ checkpoint[p].model_args # model_args(p))
          => (pc[p] = "crashed" /\ error[p] = "RuntimeError")

\* C12 amended: a resume whose checkpoint was saved with other embedding
\* dimensions or another number of layers fails with an error before any
\* training batch and leaves the live model untouched; a checkpoint that
\* differs in dropout only is loaded by a single process without error and
\* its state is applied.
C12_ShapeDifferenceFails ==
    \A p \in Procs :
       (Resumed(p) /\ epoch[p] = 0 /\ checkpoint[p] # NoFile) =>
          /\ StateShape(checkpoint[p].model_args) # StateShape(model_args(p))
                => /\ pc[p] = "crashed" /\ error[p] = "RuntimeError"
                   /\ params[p] = <<>> /\ opt_state[p] = 0
          /\ (StateShape(checkpoint[p].model_args) = StateShape(model_args(p))
              /\ ~IS_DDP(p))
                => /\ pc[p] = "epoch_loop" /\ error[p] = "none"
                   /\ params[p] = checkpoint[p].model.values
                   /\ opt_state[p] = checkpoint[p].optimizer

\* C12 witness: a resume with 24 layers from a checkpoint of 12 layers has
\* failed, and the checkpoint held a trained state.
C12_Witness ==
    \E p \in Procs :
       /\ Resumed(p) /\ args[p].num_hidden_layers = 24
       /\ checkpoint[p] # NoFile /\ checkpoint[p].model_args.num_layers = 12
       /\ checkpoint[p].optimizer >= 1
       /\ pc[p] = "crashed" /\ error[p] = "RuntimeError"

\* C20: in both modes a resume with unchanged model arguments loads the
\* checkpoint the first launch wrote and applies its state.
C20_RoundTrip ==
    \A p \in Procs :
       (Resumed(p) /\ epoch[p] = 0 /\ model_args(p) = model_args(0))
          => /\ pc[p] = "epoch_loop" /\ error[p] = "none"
             /\ params[p] = checkpoint_file.model.values
             /\ opt_state[p] = checkpoint_file.optimizer

====
